---------------------------- MODULE Spec2Model ----------------------------
(***************************************************************************)
(* A model of the poster-analysis backend (src/main.py, src/models.py).    *)
(*                                                                         *)
(* Text is modelled as a sequence of one-character strings, so that the    *)
(* cleaning of a time string, the strptime formats and the fallback regex  *)
(* are computed character by character as Python computes them.            *)
(***************************************************************************)
EXTENDS Integers, Sequences, FiniteSets, TLC

(***************************************************************************)
(* Characters and the str methods the code calls.                          *)
(***************************************************************************)
UpperLetters ==
  <<"A","B","C","D","E","F","G","H","I","J","K","L","M",
    "N","O","P","Q","R","S","T","U","V","W","X","Y","Z">>

LowerLetters ==
  <<"a","b","c","d","e","f","g","h","i","j","k","l","m",
    "n","o","p","q","r","s","t","u","v","w","x","y","z">>

Digits == <<"0","1","2","3","4","5","6","7","8","9">>

DigitSet == {Digits[i] : i \in 1..10}

Whitespace == {" ", "\t", "\n"}

\* str.lower() on one character
LowerChar(c) ==
  IF \E i \in 1..26 : UpperLetters[i] = c
  THEN LowerLetters[CHOOSE i \in 1..26 : UpperLetters[i] = c]
  ELSE c

\* str.lower()
Lower(s) == [i \in 1..Len(s) |-> LowerChar(s[i])]

\* s[from:] (1-based)
Drop(s, n) == SubSeq(s, n + 1, Len(s))

StartsWith(s, p) == Len(s) >= Len(p) /\ SubSeq(s, 1, Len(p)) = p

\* str.replace(old, new) for a non-empty old: one left-to-right scan over
\* non-overlapping occurrences; text produced by a replacement is not rescanned.
\* str.replace(old, new, 1): only the first occurrence is replaced
ReplaceFirst(s, old, new) ==
  IF \E i \in 1..(Len(s) - Len(old) + 1) : SubSeq(s, i, i + Len(old) - 1) = old
  THEN LET i == CHOOSE i \in 1..(Len(s) - Len(old) + 1) :
                  /\ SubSeq(s, i, i + Len(old) - 1) = old
                  /\ \A j \in 1..(i - 1) : SubSeq(s, j, j + Len(old) - 1) # old
       IN  SubSeq(s, 1, i - 1) \o new \o SubSeq(s, i + Len(old), Len(s))
  ELSE s

RECURSIVE Replace(_, _, _)
Replace(s, old, new) ==
  IF Len(s) < Len(old) THEN s
  ELSE IF StartsWith(s, old)
       THEN new \o Replace(Drop(s, Len(old)), old, new)
       ELSE <<Head(s)>> \o Replace(Tail(s), old, new)

RECURSIVE LStrip(_)
LStrip(s) ==
  IF s # <<>> /\ Head(s) \in Whitespace THEN LStrip(Tail(s)) ELSE s

RECURSIVE RStrip(_)
RStrip(s) ==
  IF s # <<>> /\ s[Len(s)] \in Whitespace
  THEN RStrip(SubSeq(s, 1, Len(s) - 1)) ELSE s

\* str.strip()
Strip(s) == RStrip(LStrip(s))

DigitVal(c) == (CHOOSE i \in 1..10 : Digits[i] = c) - 1

\* int() of a run of decimal digits
RECURSIVE IntOf(_)
IntOf(s) ==
  IF s = <<>> THEN 0
  ELSE 10 * IntOf(SubSeq(s, 1, Len(s) - 1)) + DigitVal(s[Len(s)])

\* str() of a natural number
RECURSIVE StrOf(_)
StrOf(n) ==
  IF n < 10 THEN <<Digits[n + 1]>>
  ELSE StrOf(n \div 10) \o <<Digits[(n % 10) + 1]>>

\* f"{n:02d}"
Format02d(n) == IF n < 10 THEN <<"0">> \o StrOf(n) ELSE StrOf(n)

(***************************************************************************)
(* clean_time_string (main.py 40-51).                                      *)
(***************************************************************************)
words_to_remove ==
  << <<"o","n","w","a","r","d","s">>,
     <<"o","n","w","a","r","d">>,
     <<"s","t","a","r","t","i","n","g">>,
     <<"f","r","o","m">>,
     <<"a","t">> >>

\* the loop of lines 45-46, from word number i on
RECURSIVE RemoveWords(_, _)
RemoveWords(s, i) ==
  IF i > Len(words_to_remove) THEN s
  ELSE RemoveWords(Strip(Replace(s, words_to_remove[i], <<>>)), i + 1)

clean_time_string(time_str) ==
  LET removed == RemoveWords(Lower(time_str), 1)
      padded  == Replace(Replace(removed, <<"p","m">>, <<" ","P","M">>),
                         <<"a","m">>, <<" ","A","M">>)
  IN  Strip(padded)


(***************************************************************************)
(* datetime.strptime (main.py 100-103, 122, 144, 240).                     *)
(*                                                                         *)
(* A format is a sequence of tokens: a directive letter, a literal         *)
(* character, or " " for a run of white space in the format, which         *)
(* strptime turns into the regex \s+.  Each directive is the ordered list  *)
(* of the alternatives of its regex, each alternative a sequence of        *)
(* character classes; the regex is compiled with IGNORECASE.               *)
(***************************************************************************)
D09 == DigitSet

D19 == DigitSet \ {"0"}

Directives == {"I", "H", "M", "S", "p", "Y", "m", "d"}

DirectiveAlts(t) ==
  CASE t = "I" -> << <<{"1"}, {"0","1","2"}>>, <<{"0"}, D19>>, <<D19>> >>
    [] t = "H" -> << <<{"2"}, {"0","1","2","3"}>>, <<{"0","1"}, D09>>, <<D09>> >>
    [] t = "M" -> << <<{"0","1","2","3","4","5"}, D09>>, <<D09>> >>
    [] t = "S" -> << <<{"6"}, {"0","1"}>>, <<{"0","1","2","3","4","5"}, D09>>,
                     <<D09>> >>
    [] t = "p" -> << <<{"a","A"}, {"m","M"}>>, <<{"p","P"}, {"m","M"}>> >>
    [] t = "Y" -> << <<D09, D09, D09, D09>> >>
    [] t = "m" -> << <<{"1"}, {"0","1","2"}>>, <<{"0"}, D19>>, <<D19>> >>
    [] t = "d" -> << <<{"3"}, {"0","1"}>>, <<{"1","2"}, D09>>, <<{"0"}, D19>>,
                     <<D19>>, <<{" "}, D19>> >>
    [] OTHER   -> << <<{t}>> >>

AltMatchesAt(alt, s, pos) ==
  /\ pos + Len(alt) - 1 <= Len(s)
  /\ \A k \in 1..Len(alt) : s[pos + k - 1] \in alt[k]

\* the length of the run of white space of s that starts at pos
RECURSIVE SpaceRun(_, _)
SpaceRun(s, pos) ==
  IF pos <= Len(s) /\ s[pos] \in Whitespace THEN 1 + SpaceRun(s, pos + 1) ELSE 0

NoGroups == [t \in Directives |-> <<>>]

NoMatch == [found |-> FALSE]

\* re.match of the format's regex at pos: the first match in the regex
\* engine's backtracking order (alternatives left to right, \s+ greedy).
RECURSIVE RegexMatch(_, _, _, _)
RECURSIVE TryAlternatives(_, _, _, _, _)
RECURSIVE TrySpaces(_, _, _, _, _)
RegexMatch(fmt, s, pos, groups) ==
  IF fmt = <<>> THEN [found |-> TRUE, end |-> pos - 1, groups |-> groups]
  ELSE IF Head(fmt) = " "
       THEN TrySpaces(SpaceRun(s, pos), fmt, s, pos, groups)
       ELSE TryAlternatives(1, fmt, s, pos, groups)

TryAlternatives(i, fmt, s, pos, groups) ==
  LET t    == Head(fmt)
      alts == DirectiveAlts(t)
  IN  IF i > Len(alts) THEN NoMatch
      ELSE LET alt  == alts[i]
               rest == IF AltMatchesAt(alt, s, pos)
                       THEN RegexMatch(Tail(fmt), s, pos + Len(alt),
                              IF t \in Directives
                              THEN [groups EXCEPT
                                      ![t] = SubSeq(s, pos, pos + Len(alt) - 1)]
                              ELSE groups)
                       ELSE NoMatch
           IN  IF rest.found THEN rest
               ELSE TryAlternatives(i + 1, fmt, s, pos, groups)

TrySpaces(n, fmt, s, pos, groups) ==
  IF n < 1 THEN NoMatch
  ELSE LET rest == RegexMatch(Tail(fmt), s, pos + n, groups)
       IN  IF rest.found THEN rest ELSE TrySpaces(n - 1, fmt, s, pos, groups)

ValueError == [ok |-> FALSE]

\* _strptime on the match m of the format's regex: there must be one and it
\* must leave nothing unconverted
WholeMatch(m, s) ==
  IF m.found /\ m.end = Len(s) THEN [ok |-> TRUE, groups |-> m.groups]
  ELSE ValueError

StrptimeGroups(s, fmt) == WholeMatch(RegexMatch(fmt, s, 1, NoGroups), s)

\* the hour of %I with the %p found beside it; no %p counts as AM
HourOfI(hour, ampm) ==
  IF ampm = <<>> \/ ampm = <<"a","m">>
  THEN (IF hour = 12 THEN 0 ELSE hour)
  ELSE (IF hour # 12 THEN hour + 12 ELSE hour)

\* the time of the groups r that a time format found
TimeOfGroups(r) ==
  IF ~r.ok THEN ValueError
  ELSE IF IntOf(r.groups["S"]) > 59 THEN ValueError
  ELSE [ok |-> TRUE,
        time |-> << IF r.groups["I"] # <<>>
                    THEN HourOfI(IntOf(r.groups["I"]), Lower(r.groups["p"]))
                    ELSE IntOf(r.groups["H"]),
                    IntOf(r.groups["M"]),
                    IntOf(r.groups["S"]) >>]

\* datetime.strptime(s, fmt).time() for a time format
StrptimeTime(s, fmt) == TimeOfGroups(StrptimeGroups(s, fmt))

\* the formats with %H written where the 12-hour %I belongs
time_formats_24 ==
  << <<"H", ":", "M", " ", "p">>,
     <<"H", ":", "M", "p">>,
     <<"H", ":", "M">>,
     <<"H", ":", "M">>,
     <<"H", " ", "p">>,
     <<"H", ":", "M", ":", "S">>,
     <<"H", ":", "M", ":", "S", " ", "p">> >>

time_formats ==
  << <<"I", ":", "M", " ", "p">>,
     <<"I", ":", "M", "p">>,
     <<"I", ":", "M">>,
     <<"H", ":", "M">>,
     <<"I", " ", "p">>,
     <<"H", ":", "M", ":", "S">>,
     <<"I", ":", "M", ":", "S", " ", "p">> >>

\* the loop of lines 120-125, from format number i on
RECURSIVE TryFormats(_, _)
FirstSuccess(r, time_str, i) ==
  IF r.ok THEN r ELSE TryFormats(time_str, i + 1)

TryFormats(time_str, i) ==
  IF i > Len(time_formats) THEN ValueError
  ELSE FirstSuccess(StrptimeTime(time_str, time_formats[i]), time_str, i)

(***************************************************************************)
(* The fallback of lines 127-146:                                          *)
(*   re.compile(r'(\d{1,2}):?(\d{2})?\s*(am|pm|AM|PM)?').search(time_str)  *)
(* Everything after the first group is optional and greedy, so the match   *)
(* starts at the first digit of the string and never backtracks.           *)
(***************************************************************************)
IsDigitAt(s, pos) == pos <= Len(s) /\ s[pos] \in DigitSet

Periods == { <<"a","m">>, <<"p","m">>, <<"A","M">>, <<"P","M">> }

\* the groups of a match that starts at p0; p1 is where group 1 ends, p2
\* where the optional colon ends, p3 where group 2 ends and p4 where the
\* white space ends
MatchGroups(s, p0, p1, p2, p3, p4) ==
  [found |-> TRUE,
   group1 |-> SubSeq(s, p0, p1 - 1),
   group2 |-> SubSeq(s, p2, p3 - 1),
   group3 |-> IF p4 + 1 <= Len(s) /\ SubSeq(s, p4, p4 + 1) \in Periods
              THEN SubSeq(s, p4, p4 + 1) ELSE <<>>]

AfterMinute(s, p0, p1, p2, p3) ==
  MatchGroups(s, p0, p1, p2, p3, p3 + SpaceRun(s, p3))

AfterColon(s, p0, p1, p2) ==
  AfterMinute(s, p0, p1, p2,
              IF IsDigitAt(s, p2) /\ IsDigitAt(s, p2 + 1) THEN p2 + 2 ELSE p2)

AfterHour(s, p0, p1) ==
  AfterColon(s, p0, p1, IF p1 <= Len(s) /\ s[p1] = ":" THEN p1 + 1 ELSE p1)

MatchAt(s, p0) ==
  AfterHour(s, p0, IF IsDigitAt(s, p0 + 1) THEN p0 + 2 ELSE p0 + 1)

time_pattern_search(s) ==
  IF \A i \in 1..Len(s) : s[i] \notin DigitSet THEN NoMatch
  ELSE MatchAt(s, CHOOSE i \in 1..Len(s) :
                    /\ s[i] \in DigitSet
                    /\ \A j \in 1..(i - 1) : s[j] \notin DigitSet)

\* lines 138-142
AdjustHour(hour, period) ==
  IF period # <<>> /\ Lower(period) = <<"p","m">> /\ hour # 12 THEN hour + 12
  ELSE IF period # <<>> /\ Lower(period) = <<"a","m">> /\ hour = 12 THEN 0
  ELSE hour

\* lines 133-146 on the match of time_pattern
TimeOfMatch(match) ==
  IF ~match.found THEN ValueError
  ELSE StrptimeTime(
         Format02d(AdjustHour(IntOf(match.group1), match.group3))
           \o <<":">>
           \o Format02d(IF match.group2 # <<>> THEN IntOf(match.group2) ELSE 0),
         <<"H", ":", "M">>)

regex_fallback(time_str) == TimeOfMatch(time_pattern_search(time_str))

\* lines 118-146 on the cleaned string
OrFallback(r, time_str) == IF r.ok THEN r ELSE regex_fallback(time_str)

ParseCleaned(time_str) == OrFallback(TryFormats(time_str, 1), time_str)

\* lines 107-148: the time the handler stores for a non-empty event_time,
\* or the ValueError that its except clause turns into an HTTPException
parse_event_time(event_time) == ParseCleaned(clean_time_string(event_time))

(***************************************************************************)
(* Calendar dates: datetime.strptime(s, "%Y-%m-%d").date() and the server  *)
(* clock behind date.today().  A date is <<year, month, day>>; a missing   *)
(* (None, NULL) date or time is the empty tuple.                           *)
(***************************************************************************)
None == <<>>

IsLeap(y) == (y % 4 = 0 /\ y % 100 # 0) \/ y % 400 = 0

DaysInMonth(y, m) ==
  IF m = 2 THEN (IF IsLeap(y) THEN 29 ELSE 28)
  ELSE IF m \in {4, 6, 9, 11} THEN 30 ELSE 31

date_format == <<"Y", "-", "m", "-", "d">>

\* datetime.strptime(s, "%Y-%m-%d").date(): the regex of the format, then
\* the range checks of the datetime constructor
ValidDate(y, m, d) ==
  IF y < 1 \/ d > DaysInMonth(y, m) THEN ValueError
  ELSE [ok |-> TRUE, date |-> <<y, m, d>>]

DateOfGroups(r) ==
  IF ~r.ok THEN ValueError
  ELSE ValidDate(IntOf(r.groups["Y"]), IntOf(r.groups["m"]),
                 IntOf(Strip(r.groups["d"])))

StrptimeDate(s) == DateOfGroups(StrptimeGroups(s, date_format))

\* a < b on dates and on times: the order of their tuples
TupleLess(a, b) ==
  \/ a[1] < b[1]
  \/ a[1] = b[1] /\ a[2] < b[2]
  \/ a[1] = b[1] /\ a[2] = b[2] /\ a[3] < b[3]

\* the day after d
NextDay(d) ==
  IF d[3] < DaysInMonth(d[1], d[2]) THEN <<d[1], d[2], d[3] + 1>>
  ELSE IF d[2] < 12 THEN <<d[1], d[2] + 1, 1>>
  ELSE <<d[1] + 1, 1, 1>>


(***************************************************************************)
(* The state.                                                              *)
(*   posters     the rows of table "posters", in insertion order           *)
(*   next_id     the next value of the primary key's sequence              *)
(*   today       the server's current date, read by date.today()           *)
(*   req         for each worker, the request it is handling               *)
(*   normalizer  one run of the event_time normalisation on its own        *)
(***************************************************************************)
VARIABLES posters, next_id, today, req, normalizer

vars == <<posters, next_id, today, req, normalizer>>

service_vars == <<posters, next_id, today, req>>

(***************************************************************************)
(* The event_time normalisation on its own (main.py 106-148), run over     *)
(* families of time strings.                                               *)
(***************************************************************************)
\* the number of text pieces a free-form time string is put together from
MaxPieces == 3

Fillers ==
  { <<>>,
    <<" ","o","n","w","a","r","d","s">>,
    <<" ","o","n","w","a","r","d">>,
    <<" ","s","t","a","r","t","i","n","g">> }

AmSpellings == { <<"A","M">>, <<"a","m">>, <<"A","m">>, <<"a","M">> }

PmSpellings == { <<"P","M">>, <<"p","m">>, <<"P","m">>, <<"p","M">> }

\* "h:mm AM", "h:mmAM", "h AM", "hAM"
MeridiemForms == {"h:mm p", "h:mmp", "h p", "hp"}

MeridiemText(h, m, form, mer, filler) ==
  LET minutes == IF form \in {"h:mm p", "h:mmp"}
                 THEN <<":">> \o Format02d(m) ELSE <<>>
      gap     == IF form \in {"h:mm p", "h p"} THEN <<" ">> ELSE <<>>
  IN  StrOf(h) \o minutes \o gap \o mer \o filler

\* "H:mm" with the hour as written on a 24-hour clock, with or without a
\* leading zero
Hour24Text(h, m, padded) ==
  (IF padded THEN Format02d(h) ELSE StrOf(h)) \o <<":">> \o Format02d(m)

Pieces ==
  { <<"a","t">>, <<"A">>, <<"a">>, <<"t">>, <<"f","r","o","m">>,
    <<"o","n","w","a","r","d">>, <<"s">>,
    <<"s","t","a","r","t","i","n","g">>, <<"p","m">>, <<"a","m">>, <<" ">>,
    <<"5">>, <<"l","a","n","t","i","c">>,
    <<"h","a","l","f"," ","p","a","s","t"," ">> }

RECURSIVE PieceTexts(_)
PieceTexts(n) ==
  IF n = 0 THEN { <<>> }
  ELSE LET shorter == PieceTexts(n - 1)
       IN  shorter \cup { s \o p : s \in shorter, p \in Pieces }

NormalizerIdle ==
  [stage |-> "idle", family |-> "none", h |-> 0, m |-> 0, pm |-> FALSE,
   event_time |-> <<>>, time_str |-> <<>>, parsed_time |-> ValueError]

NormalizerInput(family, h, m, pm, text) ==
  [NormalizerIdle EXCEPT !.stage = "input", !.family = family, !.h = h,
                         !.m = m, !.pm = pm, !.event_time = text]

\* lines 107-148 with time_str the cleaned text of line 107
Normalized(n, time_str) ==
  [n EXCEPT !.stage = "parsed", !.time_str = time_str,
            !.parsed_time = ParseCleaned(time_str)]

\* lines 106-148 on normalizer.event_time
NormalizeEventTime ==
  /\ normalizer.stage = "input"
  /\ normalizer' = Normalized(normalizer, clean_time_string(normalizer.event_time))
  /\ UNCHANGED service_vars

(***************************************************************************)
(* Values of the model's JSON and of the table's columns: null (None,      *)
(* NULL), a text, or a typed value (a date or a time).                     *)
(***************************************************************************)
Null == [kind |-> "null", v |-> <<>>]

Str(s) == [kind |-> "str", v |-> s]

Val(x) == [kind |-> "value", v |-> x]

\* Python's truth value of a JSON string or null: if extracted_data.get(key)
Truthy(x) == x.kind = "value" \/ (x.kind = "str" /\ x.v # <<>>)

CityHall == <<"C","i","t","y"," ","H","a","l","l">>

Hallway == <<"h","a","l","l","w","a","y">>

Stadium == <<"S","t","a","d","i","u","m">>

HallA == <<"H","a","l","l"," ","A">>

Physics == <<"P","h","y","s","i","c","s">>

Feb28 == <<"2","0","2","4","-","0","2","-","2","8">>

Feb29 == <<"2","0","2","4","-","0","2","-","2","9">>

Feb30 == <<"2","0","2","4","-","0","2","-","3","0">>

SlashDate == <<"1","3","/","0","1","/","2","0","2","4">>

FiveThirtyPMOnwards == <<"5",":","3","0"," ","P","M"," ","o","n","w","a","r","d","s">>

Noon30 == <<"1","2",":","3","0">>

NineAM == <<"9"," ","A","M">>

HalfPast5 == <<"h","a","l","f"," ","p","a","s","t"," ","5">>

HalfPastFive == <<"h","a","l","f"," ","p","a","s","t"," ","f","i","v","e">>

\* the server's date when the model starts
FirstDay == <<2024, 2, 28>>

\* how many times the server's date advances
MaxDays == 1

\* how many rows the table grows to
MaxPosters == 2

\* two server processes; requests that only read do not interact, so the
\* second process serves the one endpoint that writes
Workers == {"w1", "w2"}

Readers == {"w1"}

\* a JSON object with the keys the prompt asks for (title, name and socials
\* are texts no handler looks at; the model leaves them out)
Extracted(location, venue, hosted_department, event_date, event_time) ==
  [location |-> location, venue |-> venue,
   hosted_department |-> hosted_department,
   event_date |-> event_date, event_time |-> event_time]

ModelObjects ==
  { Extracted(Str(CityHall), Str(HallA), Str(Physics), Str(Feb29),
              Str(FiveThirtyPMOnwards)),
    Extracted(Str(Hallway), Null, Str(Physics), Str(Feb28), Str(Noon30)),
    Extracted(Str(CityHall), Str(HallA), Null, Null, Str(HalfPast5)),
    Extracted(Str(Stadium), Null, Null, Str(Feb29), Null),
    Extracted(Str(CityHall), Null, Null, Str(SlashDate), Str(NineAM)),
    Extracted(Str(CityHall), Null, Null, Str(Feb30), Null),
    Extracted(Str(CityHall), Null, Null, Str(Feb29), Str(HalfPastFive)),
    Extracted(Str(<<>>), Str(<<>>), Str(<<>>), Str(<<>>), Str(<<>>)) }

\* response.text as a sequence of pieces: an opening or closing code fence
\* (three backquotes, the opening one followed by the word json), a JSON
\* object, a JSON value that is no object, or text that is no JSON
Piece(tok, object) == [tok |-> tok, object |-> object]

NoObject == Extracted(Null, Null, Null, Null, Null)

Bodies ==
  { Piece("object", o) : o \in ModelObjects }
  \cup { Piece("scalar", NoObject), Piece("not json", NoObject) }

ModelResponses ==
  { <<b>> : b \in Bodies }
  \cup { <<Piece("fence json", NoObject), b, Piece("fence", NoObject)>> : b \in Bodies }

\* line 93: the two .replace(fence, '') calls
StripFences(response_text) ==
  SelectSeq(response_text, LAMBDA x : x.tok \notin {"fence json", "fence"})

\* line 94: json.loads
JsonLoads(response_text) ==
  IF Len(response_text) = 1 /\ response_text[1].tok \in {"object", "scalar"}
  THEN [ok |-> TRUE, value |-> response_text[1]]
  ELSE [ok |-> FALSE, value |-> Piece("not json", NoObject)]

(***************************************************************************)
(* Requests.  A worker handles one request at a time; its record holds the *)
(* handler's position and local variables, the session it took from        *)
(* get_db, and the response.                                               *)
(***************************************************************************)
IdleRequest ==
  [pc |-> "idle", endpoint |-> "none", param |-> <<>>, upcoming_only |-> FALSE,
   search_date |-> None, extracted_data |-> NoObject,
   session |-> "none", generator |-> "none", acquired |-> 0,
   used_closed |-> FALSE, inserted |-> 0,
   status |-> 0, raised |-> 0, failure |-> "none", result |-> <<>>]

NewRequest(endpoint) == [IdleRequest EXCEPT !.endpoint = endpoint]

\* lines 174-175 (and 201-202, 232-233, 262-263, 293-294, 324-325):
\*   except Exception as e: raise HTTPException(status_code=500, ...)
\* HTTPException is an Exception, so the clause also catches the
\* HTTPException(400) raised inside the try block.
ExceptException(raised) == 500

\* the request ends with the exception named failure; raised is the status of the
\* HTTPException raised inside the try block, 0 for any other exception
Fail(r, failure, raised) ==
  [r EXCEPT !.pc = "done", !.failure = failure, !.raised = raised,
            !.status = ExceptException(raised)]

\* get_db up to its yield (lines 33-36), called as next(get_db()): the
\* session is handed to the handler and the generator stays suspended,
\* referenced by nobody
get_db(r) ==
  [r EXCEPT !.session = "open", !.generator = "suspended",
            !.acquired = @ + 1]

\* a database operation on the handler's session; a closed Session begins
\* again when used
UseSession(r) ==
  [r EXCEPT !.used_closed = @ \/ r.session = "closed", !.session = "open"]

Free(w) == req[w].pc \in {"idle", "done"}

(***************************************************************************)
(* POST /analyze-poster (main.py 53-175).                                  *)
(***************************************************************************)
\* POST requests that may still insert a row
Posting == { w \in Workers : req[w].endpoint = "analyze_poster"
                             /\ req[w].pc \in {"generate", "commit"} }

\* lines 57-58: the upload is read and opened as an image
analyze_poster_read(w) ==
  /\ Free(w)
  /\ Len(posters) + Cardinality(Posting) < MaxPosters
  /\ \E is_image \in BOOLEAN :
       req' = [req EXCEPT ![w] =
                 IF is_image
                 THEN [NewRequest("analyze_poster") EXCEPT !.pc = "generate"]
                 ELSE Fail(NewRequest("analyze_poster"), "InvalidImage", 0)]
  /\ UNCHANGED <<posters, next_id, today, normalizer>>

\* lines 92-157 on the text the model returned
\* a handler that notes the invalid date or time, drops the field and
\* stores the row all the same
ConvertedKeep(r, data, d, t) ==
  get_db(
    [r EXCEPT
       !.pc = "commit",
       !.failure = IF ~d.ok \/ ~t.ok THEN "DateTimeInvalid" ELSE @,
       !.extracted_data =
         [data EXCEPT
            !.event_date = IF ~d.ok THEN Null
                           ELSE IF Truthy(data.event_date)
                           THEN Val(d.date) ELSE @,
            !.event_time = IF ~t.ok THEN Null
                           ELSE IF Truthy(data.event_time)
                           THEN Val(t.time) ELSE @]])

\* lines 150-157 on the results d and t of lines 99-103 and 106-148
Converted(r, data, d, t) ==
  IF ~d.ok \/ ~t.ok
  THEN Fail(r, "DateTimeInvalid", 400)                    \* lines 150-154
  ELSE get_db(
         [r EXCEPT
            !.pc = "commit",
            !.extracted_data =
              [data EXCEPT
                 !.event_date = IF Truthy(data.event_date)
                                THEN Val(d.date) ELSE @,
                 !.event_time = IF Truthy(data.event_time)
                                THEN Val(t.time) ELSE @]])

\* lines 96-157 on the parsed JSON object
Convert(r, data) ==
  Converted(r, data,
            IF Truthy(data.event_date)
            THEN StrptimeDate(data.event_date.v)
            ELSE [ok |-> TRUE, date |-> None],
            IF Truthy(data.event_time)
            THEN parse_event_time(data.event_time.v)
            ELSE [ok |-> TRUE, time |-> None])

\* lines 94-172 on what json.loads makes of the text
Loaded(r, loaded) ==
  IF ~loaded.ok
  THEN Fail(r, "ModelResponseMalformed", 500)             \* lines 168-172
  ELSE IF loaded.value.tok # "object"
  THEN Fail(r, "InternalError", 0)                        \* it has no .get
  ELSE Convert(r, loaded.value.object)

Extract(r, response_text) == Loaded(r, JsonLoads(StripFences(response_text)))

\* line 87 and what follows it up to the commit: the model call raises, or
\* returns a text that lines 92-157 work on
analyze_poster_extract(w) ==
  /\ req[w].endpoint = "analyze_poster"
  /\ req[w].pc = "generate"
  /\ \/ req' = [req EXCEPT ![w] = Fail(@, "ModelCallFailed", 0)]
     \/ \E response_text \in ModelResponses :
          req' = [req EXCEPT ![w] = Extract(@, response_text)]
  /\ UNCHANGED <<posters, next_id, today, normalizer>>

\* a table whose id column does not count up
PosterSameId(data, id) ==
  [id |-> 1, location |-> data.location, venue |-> data.venue,
   hosted_department |-> data.hosted_department,
   event_date |-> data.event_date, event_time |-> data.event_time]

\* the row of Poster(**extracted_data) once the store has given it its id
\* (models.py 15-27; created_at, which nothing reads, is left out)
Poster(data, id) ==
  [id |-> id, location |-> data.location, venue |-> data.venue,
   hosted_department |-> data.hosted_department,
   event_date |-> data.event_date, event_time |-> data.event_time]

\* a Date or Time column takes a date, a time or NULL: the empty string that
\* lines 99 and 106 leave alone is refused by the store
Storable(data) ==
  data.event_date.kind # "str" /\ data.event_time.kind # "str"

\* lines 158-160: the row is added and committed, or the store raises
analyze_poster_commit(w) ==
  /\ req[w].endpoint = "analyze_poster"
  /\ req[w].pc = "commit"
  /\ LET r == UseSession(req[w])
     IN  \/ /\ req' = [req EXCEPT ![w] = Fail(r, "StoreFailure", 0)]
            /\ UNCHANGED <<posters, next_id>>
         \/ /\ Storable(r.extracted_data)
            /\ posters' = Append(posters, Poster(r.extracted_data, next_id))
            /\ next_id' = next_id + 1
            /\ req' = [req EXCEPT ![w] =
                         [r EXCEPT !.pc = "refresh", !.inserted = @ + 1]]
  /\ UNCHANGED <<today, normalizer>>

\* lines 161-166: the row is read back and the response returned, or the
\* store raises
analyze_poster_refresh(w) ==
  /\ req[w].endpoint = "analyze_poster"
  /\ req[w].pc = "refresh"
  /\ LET r == UseSession(req[w])
     IN  \/ req' = [req EXCEPT ![w] = Fail(r, "StoreFailure", 0)]
         \/ req' = [req EXCEPT ![w] = [r EXCEPT !.pc = "done", !.status = 200]]
  /\ UNCHANGED <<posters, next_id, today, normalizer>>

(***************************************************************************)
(* The read endpoints (main.py 177-325).                                   *)
(***************************************************************************)
Rows == { posters[i] : i \in 1..Len(posters) }

\* the filter with > where the code has >=
UpcomingAfter(row) ==
  row.event_date.kind = "value" /\ TupleLess(today, row.event_date.v)

\* Poster.event_date >= today; NULL compares as unknown and is filtered out
Upcoming(row) ==
  row.event_date.kind = "value" /\ ~TupleLess(row.event_date.v, today)

\* pattern LIKE text, letter case ignored: % is any run of characters and _
\* any one character (no search string of the model holds a backslash)
RECURSIVE Like(_, _)
Like(pattern, text) ==
  IF pattern = <<>> THEN text = <<>>
  ELSE IF Head(pattern) = "%"
       THEN Like(Tail(pattern), text)
            \/ (text # <<>> /\ Like(pattern, Tail(text)))
       ELSE /\ text # <<>>
            /\ Head(pattern) = "_" \/ LowerChar(Head(pattern)) = LowerChar(Head(text))
            /\ Like(Tail(pattern), Tail(text))

\* column.ilike(f"%{search}%"); NULL matches nothing
ilike(column, search) ==
  column.kind = "str" /\ Like(<<"%">> \o search \o <<"%">>, column.v)

\* ORDER BY key ascending as PostgreSQL orders: NULL after every value
KeyLeq(a, b) ==
  \/ b.kind # "value"
  \/ a.kind = "value" /\ ~TupleLess(b.v, a.v)

\* .order_by(key).all(): the rows in any order the ORDER BY allows
Ordered(rows, key) ==
  { s \in [1..Cardinality(rows) -> rows] :
      /\ \A i, j \in DOMAIN s : i # j => s[i] # s[j]
      /\ \A i, j \in DOMAIN s : i < j => KeyLeq(s[i][key], s[j][key]) }

Format04d(n) ==
  IF n < 10 THEN <<"0","0","0">> \o StrOf(n)
  ELSE IF n < 100 THEN <<"0","0">> \o StrOf(n)
  ELSE IF n < 1000 THEN <<"0">> \o StrOf(n) ELSE StrOf(n)

\* date.isoformat() and time.isoformat()
IsoFormat(x, sep) ==
  (IF sep = "-" THEN Format04d(x[1]) ELSE Format02d(x[1]))
    \o <<sep>> \o Format02d(x[2]) \o <<sep>> \o Format02d(x[3])

\* the dict of one event (lines 189-199)
EventDict(event) ==
  [id |-> event.id, location |-> event.location, venue |-> event.venue,
   hosted_department |-> event.hosted_department,
   event_date |-> Str(IsoFormat(event.event_date.v, "-")),
   event_time |-> IF event.event_time.kind = "value"
                  THEN Str(IsoFormat(event.event_time.v, ":")) ELSE Null]

\* the list comprehension of lines 188-200: event.event_date.isoformat()
\* raises AttributeError on an event without a date
Respond(r, events) ==
  IF \E i \in DOMAIN events : events[i].event_date.kind # "value"
  THEN Fail(r, "InternalError", 0)
  ELSE [r EXCEPT !.pc = "done", !.status = 200,
                 !.result = [i \in DOMAIN events |-> EventDict(events[i])]]

\* a handler's query and response: the store raises, or returns the
\* selected rows in order
RunQuery(w, selected, key) ==
  /\ req[w].pc = "query"
  /\ LET r == UseSession(req[w])
     IN  \/ req' = [req EXCEPT ![w] = Fail(r, "StoreFailure", 0)]
         \/ \E events \in Ordered(selected, key) :
              req' = [req EXCEPT ![w] = Respond(r, events)]
  /\ UNCHANGED <<posters, next_id, today, normalizer>>

\* the handler starts and takes its session (lines 180, 210, 272, 302)
StartQuery(w, endpoint, search, upcoming_only) ==
  /\ w \in Readers
  /\ Free(w)
  /\ req' = [req EXCEPT ![w] =
               get_db([NewRequest(endpoint) EXCEPT
                         !.pc = "query", !.param = search,
                         !.upcoming_only = upcoming_only])]
  /\ UNCHANGED <<posters, next_id, today, normalizer>>

\* the rows of a by-location, by-venue or by-department query
Matching(column, r) ==
  { row \in Rows : /\ ilike(row[column], r.param)
                   /\ r.upcoming_only => Upcoming(row) }

Hall == <<"h","a","l","l">>

LocationSearches == { Hall, <<"a","_","l">> }

VenueSearches == { Hall }

DepartmentSearches == { <<"P","H","Y","S">> }

DateQueries == { Feb29, <<"2","9","-","0","2","-","2","0","2","4">> }

\* GET /events/upcoming
get_upcoming_events_start(w) ==
  StartQuery(w, "get_upcoming_events", <<>>, FALSE)

get_upcoming_events(w) ==
  /\ req[w].endpoint = "get_upcoming_events"
  /\ RunQuery(w, { row \in Rows : Upcoming(row) }, "event_date")

\* GET /events/by-location/{location}
get_events_by_location_start(w) ==
  \E location \in LocationSearches, upcoming_only \in BOOLEAN :
    StartQuery(w, "get_events_by_location", location, upcoming_only)

get_events_by_location(w) ==
  /\ req[w].endpoint = "get_events_by_location"
  /\ RunQuery(w, Matching("location", req[w]), "event_date")

\* GET /events/by-venue/{venue}
get_events_by_venue_start(w) ==
  \E venue \in VenueSearches, upcoming_only \in BOOLEAN :
    StartQuery(w, "get_events_by_venue", venue, upcoming_only)

get_events_by_venue(w) ==
  /\ req[w].endpoint = "get_events_by_venue"
  /\ RunQuery(w, Matching("venue", req[w]), "event_date")

\* GET /events/by-department/{department}
get_events_by_department_start(w) ==
  \E department \in DepartmentSearches, upcoming_only \in BOOLEAN :
    StartQuery(w, "get_events_by_department", department, upcoming_only)

get_events_by_department(w) ==
  /\ req[w].endpoint = "get_events_by_department"
  /\ RunQuery(w, Matching("hosted_department", req[w]), "event_date")

\* lines 239-244 on the result d of strptime
SearchDate(r, d) ==
  IF ~d.ok THEN Fail(r, "InvalidDateQuery", 400)
  ELSE get_db([r EXCEPT !.pc = "query", !.search_date = d.date])

\* GET /events/by-date/{date}
get_events_by_date_start(w) ==
  /\ w \in Readers
  /\ Free(w)
  /\ \E date \in DateQueries :
       req' = [req EXCEPT ![w] =
                 SearchDate([NewRequest("get_events_by_date") EXCEPT
                               !.param = date],
                            StrptimeDate(date))]
  /\ UNCHANGED <<posters, next_id, today, normalizer>>

\* lines 245-261
get_events_by_date(w) ==
  /\ req[w].endpoint = "get_events_by_date"
  /\ RunQuery(w, { row \in Rows : row.event_date = Val(req[w].search_date) },
              "event_time")

(***************************************************************************)
(* The environment: the garbage collector and the calendar.                *)
(***************************************************************************)
\* lines 37-38: the suspended generator of get_db is finalized, which runs
\* its finally clause and closes the session.  Nothing refers to the
\* generator once next() has returned, so this happens when the collector
\* decides: at once under reference counting, at any later time otherwise.
get_db_finalize(w) ==
  /\ req[w].generator = "suspended"
  /\ req' = [req EXCEPT ![w] =
               [@ EXCEPT !.generator = "finalized", !.session = "closed"]]
  /\ UNCHANGED <<posters, next_id, today, normalizer>>

RECURSIVE DayAfter(_, _)
DayAfter(d, n) == IF n = 0 THEN d ELSE NextDay(DayAfter(d, n - 1))

\* midnight passes on the server
Midnight ==
  /\ \E n \in 0..(MaxDays - 1) : today = DayAfter(FirstDay, n)
  /\ today' = NextDay(today)
  /\ UNCHANGED <<posters, next_id, req, normalizer>>

(***************************************************************************)
(* The specifications.                                                     *)
(***************************************************************************)
ServiceInit ==
  /\ posters = <<>>
  /\ next_id = 1
  /\ today = FirstDay
  /\ req = [w \in Workers |-> IdleRequest]

Init == ServiceInit /\ normalizer = NormalizerIdle

Next ==
  \/ \E w \in Workers :
       \/ analyze_poster_read(w)
       \/ analyze_poster_extract(w)
       \/ analyze_poster_commit(w)
       \/ analyze_poster_refresh(w)
       \/ get_upcoming_events_start(w)
       \/ get_upcoming_events(w)
       \/ get_events_by_location_start(w)
       \/ get_events_by_location(w)
       \/ get_events_by_venue_start(w)
       \/ get_events_by_venue(w)
       \/ get_events_by_department_start(w)
       \/ get_events_by_department(w)
       \/ get_events_by_date_start(w)
       \/ get_events_by_date(w)
       \/ get_db_finalize(w)
  \/ Midnight

Spec == Init /\ [][Next]_vars

\* the normalisation of one event_time, over the families of time strings
NormalizerInit ==
  /\ ServiceInit
  /\ \/ \E h \in 1..12, m \in 0..59, form \in MeridiemForms,
           mer \in AmSpellings \cup PmSpellings, filler \in Fillers :
          normalizer =
            NormalizerInput("meridiem", h,
                            IF form \in {"h:mm p", "h:mmp"} THEN m ELSE 0,
                            mer \in PmSpellings,
                            MeridiemText(h, m, form, mer, filler))
     \/ \E h \in 0..23, m \in 0..59, padded \in BOOLEAN :
          normalizer = NormalizerInput("hour24", h, m, FALSE,
                                       Hour24Text(h, m, padded))
     \/ \E text \in PieceTexts(MaxPieces) \ { <<>> } :
          normalizer = NormalizerInput("free", 0, 0, FALSE, text)

NormalizerSpec == NormalizerInit /\ [][NormalizeEventTime]_vars

(***************************************************************************)
(* Properties of the event_time normalisation, under NormalizerSpec.       *)
(***************************************************************************)
Parsed == normalizer.stage = "parsed"

\* the hour of the 24-hour clock for hour h of the 12-hour clock
Hour24(h, pm) ==
  IF pm /\ h # 12 THEN h + 12 ELSE IF ~pm /\ h = 12 THEN 0 ELSE h

\* C3: every "h:mm AM/PM", "h:mmAM/PM", "h AM/PM" and "hAM/PM" string, in
\* any letter case and with or without a filler word after it, is
\* normalised to the 24-hour time it names, with second 0.
C3_MeridiemTimes ==
  (Parsed /\ normalizer.family = "meridiem")
    => normalizer.parsed_time =
         [ok |-> TRUE,
          time |-> <<Hour24(normalizer.h, normalizer.pm), normalizer.m, 0>>]

C3_Witness ==
  /\ Parsed
  /\ normalizer.event_time = FiveThirtyPMOnwards
  /\ normalizer.parsed_time = [ok |-> TRUE, time |-> <<17, 30, 0>>]

\* C4: every "H:mm" string of the 24-hour clock, H in 0..23, is normalised
\* to the time with that same hour and minute and second 0.
C4_Hour24Times ==
  (Parsed /\ normalizer.family = "hour24")
    => normalizer.parsed_time =
         [ok |-> TRUE, time |-> <<normalizer.h, normalizer.m, 0>>]

AllDigits(x) == \A i \in 1..Len(x) : x[i] \in DigitSet

\* x is written as hour or hour:minute
HourMinute(x) ==
  \/ Len(x) \in 1..2 /\ AllDigits(x)
  \/ /\ Len(x) \in 4..5
     /\ x[Len(x) - 2] = ":"
     /\ AllDigits(SubSeq(x, 1, Len(x) - 3))
     /\ AllDigits(SubSeq(x, Len(x) - 1, Len(x)))

\* s is written as hour[:minute][meridiem]
IsTimeExpression(s) ==
  \/ HourMinute(s)
  \/ /\ Len(s) >= 3
     /\ Lower(SubSeq(s, Len(s) - 1, Len(s))) \in { <<"a","m">>, <<"p","m">> }
     /\ HourMinute(RStrip(SubSeq(s, 1, Len(s) - 2)))

\* C5: a time string whose cleaned form matches none of the seven formats
\* and is not itself an hour[:minute][meridiem] expression, such as
\* "half past 5", makes the normalisation fail.
C5_IrregularFails ==
  ( /\ Parsed
    /\ ~TryFormats(normalizer.time_str, 1).ok
    /\ ~IsTimeExpression(normalizer.time_str) )
    => ~normalizer.parsed_time.ok

\* The cleaning as the claim words it, computed over the positions of the
\* text: the occurrences of word w in s that a scan from the left takes
Occurs(s, w, i) == i + Len(w) - 1 <= Len(s) /\ SubSeq(s, i, i + Len(w) - 1) = w

TakenAt(s, w) ==
  LET taken[i \in 0..Len(s)] ==
        /\ i > 0
        /\ Occurs(s, w, i)
        /\ \A j \in 1..(i - 1) : (j > i - Len(w)) => ~taken[j]
  IN  taken

RECURSIVE Flatten(_)
Flatten(parts) ==
  IF parts = <<>> THEN <<>> ELSE Head(parts) \o Flatten(Tail(parts))

\* s with every taken occurrence of w replaced by new
Substituted(s, w, new, taken) ==
  Flatten([i \in 1..Len(s) |->
             IF taken[i] THEN new
             ELSE IF \E j \in 1..(i - 1) : j > i - Len(w) /\ taken[j] THEN <<>>
             ELSE <<s[i]>>])

EveryOccurrence(s, w, new) == Substituted(s, w, new, TakenAt(s, w))

Cleaned(s) ==
  EveryOccurrence(
    EveryOccurrence(
      EveryOccurrence(
        EveryOccurrence(
          EveryOccurrence(
            EveryOccurrence(
              EveryOccurrence(s, <<"o","n","w","a","r","d","s">>, <<>>),
              <<"o","n","w","a","r","d">>, <<>>),
            <<"s","t","a","r","t","i","n","g">>, <<>>),
          <<"f","r","o","m">>, <<>>),
        <<"a","t">>, <<>>),
      <<"p","m">>, <<" ","P","M">>),
    <<"a","m">>, <<" ","A","M">>)

Atlantic == <<"a","t","l","a","n","t","i","c">>

\* C9: cleaning lower-cases the text, removes every occurrence of
\* "onwards", "onward", "starting", "from" and "at" wherever it occurs, also
\* inside a word ("atlantic" becomes "lantic"), turns every "pm" into " PM"
\* and every "am" into " AM", and trims the white space around the result.
C9_BlindCleaning ==
  Parsed =>
    /\ normalizer.time_str = Strip(Cleaned(Lower(normalizer.event_time)))
    /\ Lower(normalizer.event_time) = Atlantic
         => normalizer.time_str = <<"l","a","n","t","i","c">>

C9_Witness ==
  /\ Parsed
  /\ normalizer.event_time = <<"A","t","l","a","n","t","i","c">>
  /\ normalizer.time_str = <<"l","a","n","t","i","c">>

(***************************************************************************)
(* Properties of the service, under Spec.                                  *)
(***************************************************************************)
\* worker w takes a step of its request
Steps(w) == req'[w] # req[w]

\* worker w's request ends in this step: it answers now, where a request
\* that has answered takes no step but the collector's on its generator
Ends(w) ==
  /\ Steps(w)
  /\ req'[w].pc = "done"
  /\ req[w].pc # "done" \/ req'[w].generator = "none"

ExtractionFailures ==
  { "InvalidImage", "ModelCallFailed", "ModelResponseMalformed",
    "DateTimeInvalid" }

\* C1: a POST /analyze-poster request that fails because the upload is not
\* an image, the model call fails, the model's text is not valid JSON, the
\* date is not YYYY-MM-DD or the time cannot be parsed inserts no record:
\* none of its steps has added a row and the step that ends it leaves the
\* store as it was.
C1_FailedPostInsertsNothing ==
  [][\A w \in Workers :
       ( /\ Ends(w)
         /\ req'[w].endpoint = "analyze_poster"
         /\ req'[w].failure \in ExtractionFailures )
         => (posters' = posters /\ req'[w].inserted = 0)]_vars

C1_Witness ==
  \E w \in Workers :
    /\ req[w].endpoint = "analyze_poster"
    /\ req[w].pc = "done"
    /\ req[w].failure = "DateTimeInvalid"
    /\ req[w].status = 500
    /\ req[w].inserted = 0
    /\ Len(posters) = 1

\* C2: the status is 400 exactly when the request failed on the date or time
\* of the model's JSON (POST) or on the date of the path (by-date); every
\* other failure is answered with 500.
C2_StatusOfFailures ==
  \A w \in Workers :
    req[w].pc = "done"
      => /\ (req[w].status = 400)
              <=> (req[w].failure \in {"DateTimeInvalid", "InvalidDateQuery"})
         /\ (req[w].failure \notin {"none", "DateTimeInvalid", "InvalidDateQuery"})
              => req[w].status = 500

\* the date of row is today or later
OnOrAfter(row, day) ==
  /\ row.event_date.kind = "value"
  /\ (row.event_date.v = day \/ TupleLess(day, row.event_date.v))

RowOf(id) == CHOOSE row \in Rows : row.id = id

\* result lists exactly the rows of selected, each once, as stored, in
\* ascending order of event_date
ListsAscending(result, selected) ==
  /\ Len(result) = Cardinality(selected)
  /\ { result[i].id : i \in DOMAIN result } = { row.id : row \in selected }
  /\ \A i \in DOMAIN result :
       /\ result[i].location = RowOf(result[i].id).location
       /\ result[i].venue = RowOf(result[i].id).venue
       /\ result[i].hosted_department = RowOf(result[i].id).hosted_department
       /\ StrptimeDate(result[i].event_date.v)
            = [ok |-> TRUE, date |-> RowOf(result[i].id).event_date.v]
  /\ \A i, j \in DOMAIN result :
       i < j => ~TupleLess(RowOf(result[j].id).event_date.v,
                           RowOf(result[i].id).event_date.v)

\* C6: GET /events/upcoming, when the store answers, returns 200 with
\* exactly the stored records whose event_date is today or later, in
\* ascending order of event_date; a record dated today is in the result and
\* a record dated yesterday or without a date is not.
C6_UpcomingEvents ==
  [][\A w \in Workers :
       ( /\ Ends(w)
         /\ req'[w].endpoint = "get_upcoming_events"
         /\ req'[w].failure # "StoreFailure" )
         => /\ req'[w].status = 200
            /\ ListsAscending(req'[w].result,
                              { row \in Rows : OnOrAfter(row, today) })]_vars

C6_Witness ==
  \E w \in Workers :
    /\ req[w].endpoint = "get_upcoming_events"
    /\ req[w].pc = "done"
    /\ req[w].status = 200
    /\ today = <<2024, 2, 29>>
    /\ Len(req[w].result) = 1
    /\ req[w].result[1].event_date = Str(Feb29)
    /\ \E row \in Rows : row.event_date = Val(<<2024, 2, 28>>)

\* text contains search, letter case ignored
Contains(text, search) ==
  \E i \in 1..(Len(text) + 1) :
    /\ i + Len(search) - 1 <= Len(text)
    /\ Lower(SubSeq(text, i, i + Len(search) - 1)) = Lower(search)

ColumnOf ==
  [get_events_by_location |-> "location", get_events_by_venue |-> "venue",
   get_events_by_department |-> "hosted_department"]

\* the rows the claim selects for the request r
Selected(r) ==
  { row \in Rows :
      /\ row[ColumnOf[r.endpoint]].kind = "str"
      /\ Contains(row[ColumnOf[r.endpoint]].v, r.param)
      /\ r.upcoming_only => OnOrAfter(row, today) }

\* C7: a by-location, by-venue or by-department request succeeds on every
\* store the service can reach, rows without an event_date included, and
\* returns exactly the rows whose column contains the search text, letter
\* case ignored, restricted to today or later when upcoming_only is set,
\* in ascending order of event_date.
C7_SearchSucceeds ==
  [][\A w \in Workers :
       ( /\ Ends(w)
         /\ req'[w].endpoint \in DOMAIN ColumnOf
         /\ req'[w].failure # "StoreFailure" )
         => /\ req'[w].status = 200
            /\ ListsAscending(req'[w].result, Selected(req'[w]))]_vars

C10_SessionLifecycle ==
  \A w \in Workers :
    /\ req[w].acquired <= 1
    /\ ~req[w].used_closed
    /\ (req[w].pc = "done" /\ req[w].acquired > 0)
         => req[w].session = "closed"

=============================================================================
